---- MODULE Spec2Model ----
(***************************************************************************)
(* A model of smartpy_sim_indicators: the helpers of framework.py          *)
(* (get_year_bin, clear_cache, the broadcast/reindex column factories,     *)
(* load_tables, list_store_tables, get_indicators, compile_to_cols,        *)
(* compile_to_rows) and the registrations of variables.py they are used    *)
(* with (the cached columns, the 'year' injectable and its readers).       *)
(*                                                                         *)
(* A value that may be missing (Python None, pandas NaN) is a sequence of  *)
(* length 0 or 1: Missing is <<>>, Some(v) is <<v>>.                       *)
(***************************************************************************)
EXTENDS Integers, Sequences, FiniteSets, TLC

Missing == <<>>
Some(v) == <<v>>
IsMissing(o) == o = <<>>
Val(o) == o[1]

Range(s) == {s[k] : k \in DOMAIN s}
SetMin(S) == CHOOSE m \in S : \A e \in S : m <= e
SetMax(S) == CHOOSE m \in S : \A e \in S : e <= m

\* All sequences over S of length lo..hi.
SeqsOf(S, lo, hi) == UNION {[1..n -> S] : n \in lo..hi}

(***************************************************************************)
(* Bounds and program constants                                            *)
(***************************************************************************)
\* orca.add_injectable('base_year', 2018)
BaseYear == 2018
\* get_year_bin is tried on years BaseYear .. BaseYear + BinSpan
BinSpan == 3
\* ... and on lists of 1 .. MaxBins bins
MaxBins == 3
\* get_indicators is run on years BaseYear .. BaseYear + RunSpan
RunSpan == 2
\* ... and on lists of 0 .. MaxYears years
MaxYears == 2
\* clear_cache is called with lists of 0 .. MaxClearList names
MaxClearList == 2
\* the joins are tried on from_tables with keys among 1 .. MaxKey
MaxKey == 3
\* ... and to_tables of 1 .. MaxRows rows
MaxRows == 4
\* the results compiled cover 1 .. MaxCompileYears years
MaxCompileYears == 2
\* ... of 1 .. MaxGroups rows each
MaxGroups == 2
\* orca.add_injectable('end_year', 2055)
EndYear == 2055
\* buildings['year_built'] lies in BaseYear - BuiltSpan .. BaseYear + RunSpan
BuiltSpan == 1

VARIABLES
    \* ---- get_year_bin: the caller's list, the arguments and the locals
    year_bins_arg,  \* the list the caller passed (sorted() copies it)
    year,           \* Missing (None) or Some(y)
    year_bins,      \* the local year_bins, sorted on entry
    idx,            \* the local idx
    yb_pos,         \* position of the for loop in year_bins (1-based)
    yb_pc,          \* "start", "loop", "ret", "done"
    yb_ret,         \* the returned bin, Missing until the function returns
    \* ---- the orca registry (process-wide state)
    TABLES,           \* orca._TABLES: table name -> Missing or Some(frame)
    COLUMN_CACHE,     \* orca._COLUMN_CACHE: <<table, column>> -> Missing or Some(value)
    INJECTABLE_CACHE, \* orca._INJECTABLE_CACHE: name -> Missing or Some(value)
    last_access,      \* the last column/injectable read and whether its function ran
    \* ---- the HDF5 files on disk
    store,          \* file name -> the keys <<partition, table>> it holds
    \* ---- the module globals of framework.py that get_indicators reads
    sim_h5,           \* Missing while the name is undefined
    tabs_to_process,  \* Missing while the name is undefined
    \* ---- get_indicators: arguments, locals, position
    h5, years, tables, agg_func,
    gi_i,           \* position of the for loop in years (1-based)
    to_concat,      \* the local dict: year -> the result of agg_func
    gi_pc,          \* "idle", "call", "load", "agg", "return", "done", "raised"
    gi_ret,         \* the returned dict, Missing until the function returns
    exc,            \* the exception that left get_indicators, Missing if none
    loads,          \* the load_tables calls that completed, in order
    \* ---- the broadcast/reindex column functions
    from_col,       \* from_table[col_name] (or the injected series): key -> value
    to_fkey,        \* to_table[fkey], a row per index label 1..n
    join_call,      \* the column function that ran and its fill_with, or Missing
    join_out,       \* the column it returned: index label -> value
    \* ---- compile_to_cols
    cc_in,          \* the to_concat argument: <<year, frame>> in the dict's order
    cc_flags,       \* collapse_col_idx, collapse_row_idx
    cc_out,         \* the returned frame, Missing until the function returns
    \* ---- compile_to_rows
    cr_in,          \* the to_concat argument: <<year, frame>> in the dict's order
    cr_collapse,    \* collapse_row_idx
    cr_out,         \* the returned frame, Missing until the function returns
    \* ---- load_tables(h5, year, tables) and list_store_tables(h5, year, full)
    lt_call,        \* the call made (and the tables registered before it)
    lt_ret,         \* what it returned or raised, Missing until it ends
    \* ---- the 'iter_var' injectable orca.run registers for its steps
    iter_var        \* Missing while not registered, else Some(value): the
                    \* value is Missing for None, Some(y) for the year y

ybVars == <<year_bins_arg, year, year_bins, idx, yb_pos, yb_pc, yb_ret>>
orcaVars == <<TABLES, COLUMN_CACHE, INJECTABLE_CACHE, last_access>>
giVars == <<store, sim_h5, tabs_to_process, h5, years, tables, agg_func,
            gi_i, to_concat, gi_pc, gi_ret, exc, loads>>

joinVars == <<from_col, to_fkey, join_call, join_out>>
ccVars == <<cc_in, cc_flags, cc_out>>
crVars == <<cr_in, cr_collapse, cr_out>>
ltVars == <<lt_call, lt_ret>>

vars == <<ybVars, orcaVars, giVars, joinVars, ccVars, crVars, ltVars, iter_var>>

\* What each specification leaves alone.
notYearBin == <<orcaVars, giVars, joinVars, ccVars, crVars, ltVars, iter_var>>
notRun == <<ybVars, joinVars, ccVars, crVars, ltVars, iter_var>>
notCache == <<ybVars, giVars, joinVars, ccVars, crVars, ltVars, iter_var>>
notJoin == <<ybVars, orcaVars, giVars, ccVars, crVars, ltVars, iter_var>>
notCompile == <<ybVars, orcaVars, giVars, joinVars, crVars, ltVars, iter_var>>
notCompileRows == <<ybVars, orcaVars, giVars, joinVars, ccVars, ltVars, iter_var>>
notLoad == <<ybVars, joinVars, ccVars, crVars, iter_var>>

(***************************************************************************)
(* get_year_bin (framework.py 53-81)                                       *)
(***************************************************************************)
BinYears == BaseYear .. (BaseYear + BinSpan)

\* Python's sorted() on a list of integers: an insertion sort, duplicates kept.
RECURSIVE InsertSorted(_, _)
InsertSorted(s, e) ==
    IF s = <<>> THEN <<e>>
    ELSE IF e < Head(s) THEN <<e>> \o s
    ELSE <<Head(s)>> \o InsertSorted(Tail(s), e)

RECURSIVE sorted(_)
sorted(s) == IF s = <<>> THEN <<>> ELSE InsertSorted(sorted(Tail(s)), Head(s))

\* Python's seq[i] for a 0-based i that may be negative (-1 is the last item).
PyIndex(s, k) == IF k < 0 THEN s[Len(s) + k + 1] ELSE s[k + 1]

\* line 72: year is None or year <= first_bin
FirstBinTest(y, first_bin) == IsMissing(y) \/ Val(y) <= first_bin

\* line 77, mutated: the bin boundary taken as exclusive
LoopBreak_Inclusive(y, y_bin) == Val(y) <= y_bin
\* line 77: if year < y_bin: break
LoopBreak(y, y_bin) == Val(y) < y_bin

YB_Idle ==
    /\ year_bins_arg = <<>>
    /\ year = Missing
    /\ year_bins = <<>>
    /\ idx = 0
    /\ yb_pos = 0
    /\ yb_pc = "idle"
    /\ yb_ret = Missing

YB_Init ==
    /\ year_bins_arg \in SeqsOf(BinYears, 1, MaxBins)
    /\ year \in {Missing} \cup {Some(y) : y \in BinYears}
    /\ year_bins = year_bins_arg
    /\ idx = 0
    /\ yb_pos = 0
    /\ yb_pc = "start"
    /\ yb_ret = Missing

\* lines 69-75: sort, the early return, idx = -1
YB_Enter ==
    /\ yb_pc = "start"
    /\ LET sb == sorted(year_bins)
           first_bin == sb[1]
       IN  /\ year_bins' = sb
           /\ IF FirstBinTest(year, first_bin)
              THEN /\ yb_ret' = Some(first_bin)
                   /\ yb_pc' = "done"
                   /\ UNCHANGED <<idx, yb_pos>>
              ELSE /\ idx' = -1
                   /\ yb_pos' = 1
                   /\ yb_pc' = "loop"
                   /\ UNCHANGED yb_ret
    /\ UNCHANGED <<year_bins_arg, year>>
    /\ UNCHANGED notYearBin

\* lines 76-79: one pass of the for loop (or its exhaustion)
YB_Loop ==
    /\ yb_pc = "loop"
    /\ IF yb_pos > Len(year_bins)
       THEN /\ yb_pc' = "ret"
            /\ UNCHANGED <<idx, yb_pos>>
       ELSE IF LoopBreak(year, year_bins[yb_pos])
       THEN /\ yb_pc' = "ret"
            /\ UNCHANGED <<idx, yb_pos>>
       ELSE /\ idx' = idx + 1
            /\ yb_pos' = yb_pos + 1
            /\ UNCHANGED yb_pc
    /\ UNCHANGED <<year_bins_arg, year, year_bins, yb_ret>>
    /\ UNCHANGED notYearBin

\* line 81: return year_bins[idx]
YB_Return ==
    /\ yb_pc = "ret"
    /\ yb_ret' = Some(PyIndex(year_bins, idx))
    /\ yb_pc' = "done"
    /\ UNCHANGED <<year_bins_arg, year, year_bins, idx, yb_pos>>
    /\ UNCHANGED notYearBin

(***************************************************************************)
(* The orca registry: tables, registered columns and injectables, caches   *)
(***************************************************************************)
TableNames == {"buildings", "households", "persons"}

\* framework.py 89-117: the column make_broadcast_injectable registers on
\* to_table (cache=True, cache_scope='iteration' unless the caller says so);
\* its function reads from_table[col_name] and to_table[fkey].
make_broadcast_injectable(from_table, to_table, col_name, fkey) ==
    [table |-> to_table, name |-> col_name, cache |-> TRUE,
     scope |-> "iteration", deps |-> {from_table, to_table}]

\* variables.py 294: registered as iteration-scoped instead
Reg_sqft_per_res_unit_Iteration ==
    [table |-> "buildings", name |-> "sqft_per_res_unit", cache |-> TRUE,
     scope |-> "iteration", deps |-> {"buildings"}]
\* variables.py 294-297: @orca.column('buildings', cache=True, cache_scope='forever')
Reg_sqft_per_res_unit ==
    [table |-> "buildings", name |-> "sqft_per_res_unit", cache |-> TRUE,
     scope |-> "forever", deps |-> {"buildings"}]

\* variables.py 300-303: @orca.column('buildings', cache=True, cache_scope='iteration')
Reg_res_hh ==
    [table |-> "buildings", name |-> "res_hh", cache |-> TRUE,
     scope |-> "iteration", deps |-> {"buildings", "households"}]

\* variables.py 346-351: the buildings columns broadcast to households
Reg_hh_parcel_id ==
    make_broadcast_injectable("buildings", "households", "parcel_id", "building_id")

\* variables.py 449-451: @orca.column('persons'), not cached
Reg_is_adult ==
    [table |-> "persons", name |-> "is_adult", cache |-> FALSE,
     scope |-> "forever", deps |-> {"persons"}]

\* orca._COLUMNS after variables.py is imported (the columns modelled)
Registry == {Reg_sqft_per_res_unit, Reg_res_hh, Reg_hh_parcel_id, Reg_is_adult}
Columns == {<<r.table, r.name>> : r \in Registry}
RegOf(c) == CHOOSE r \in Registry : <<r.table, r.name>> = c
ColumnsOf(t) == {c \in Columns : c[1] = t}

\* variables.py 464-465: @orca.injectable(cache=True, cache_scope='forever')
Inj_job_model_sectors ==
    [name |-> "job_model_sectors", cache |-> TRUE, scope |-> "forever"]
Injectables == {Inj_job_model_sectors}
InjNames == {r.name : r \in Injectables}
InjOf(n) == CHOOSE r \in Injectables : r.name = n

\* orca.add_table(name, df): registers the frame and clears the cached
\* columns of a table of that name registered before.
add_table(T, CC, t, df) ==
    [T  |-> [T EXCEPT ![t] = Some(df)],
     CC |-> [c \in Columns |-> IF c[1] = t THEN Missing ELSE CC[c]]]

\* ColumnFuncWrapper.__call__: the cached value if the column is cached and
\* has one, else the function's result (stamp), kept if the column is cached.
ReadColumn(CC, c, stamp) ==
    LET r   == RegOf(c)
        hit == r.cache /\ ~IsMissing(CC[c])
        v   == IF hit THEN Val(CC[c]) ELSE stamp
    IN  [value |-> v, ran |-> ~hit,
         CC |-> IF r.cache THEN [CC EXCEPT ![c] = Some(v)] ELSE CC]

\* The same for an injectable function.
ReadInjectable(IC, n, stamp) ==
    LET r   == InjOf(n)
        hit == r.cache /\ ~IsMissing(IC[n])
        v   == IF hit THEN Val(IC[n]) ELSE stamp
    IN  [value |-> v, ran |-> ~hit,
         IC |-> IF r.cache THEN [IC EXCEPT ![n] = Some(v)] ELSE IC]

\* Reading the columns of S one after the other.
RECURSIVE ReadColumns(_, _, _)
ReadColumns(CC, S, stamp) ==
    IF S = {} THEN [values |-> [c \in {} |-> 0], CC |-> CC]
    ELSE LET c    == CHOOSE x \in S : TRUE
             one  == ReadColumn(CC, c, stamp)
             rest == ReadColumns(one.CC, S \ {c}, stamp)
         IN  [values |-> [x \in S |-> IF x = c THEN one.value ELSE rest.values[x]],
              CC |-> rest.CC]

RECURSIVE ReadInjectables(_, _, _)
ReadInjectables(IC, S, stamp) ==
    IF S = {} THEN [values |-> [n \in {} |-> 0], IC |-> IC]
    ELSE LET n    == CHOOSE x \in S : TRUE
             one  == ReadInjectable(IC, n, stamp)
             rest == ReadInjectables(one.IC, S \ {n}, stamp)
         IN  [values |-> [x \in S |-> IF x = n THEN one.value ELSE rest.values[x]],
              IC |-> rest.IC]

NoAccess == [kind |-> "none", key |-> <<>>, ran |-> FALSE, raised |-> FALSE,
             cleared |-> {}]

\* 'iter_var' was never registered: no orca.run in this process.
IV_Unset == iter_var = Missing

ORCA_Idle ==
    /\ TABLES = [t \in TableNames |-> Missing]
    /\ COLUMN_CACHE = [c \in Columns |-> Missing]
    /\ INJECTABLE_CACHE = [n \in InjNames |-> Missing]
    /\ last_access = NoAccess

(***************************************************************************)
(* The HDF5 store and load_tables (framework.py 156-183)                   *)
(***************************************************************************)
H5Files == {"sim.h5", "other.h5"}
RunYears == BaseYear .. (BaseYear + RunSpan)

\* '{}/{}'.format(year, t): the partition part of the key, for 'base' or a year
PartName(y) == ToString(y)
Parts == {"base"} \cup {PartName(y) : y \in RunYears}
AllKeys == Parts \X TableNames

\* The columns stored for each table (the same in every partition).
StoredColumns(t) ==
    CASE t = "buildings"  -> {"residential_sqft", "residential_units"}
      [] t = "households" -> {"building_id", "income"}
      [] t = "persons"    -> {"household_id", "age"}

\* store['{}/{}'.format(year, t)]
Frame(file, part, t) ==
    [h5 |-> file, part |-> part, table |-> t, columns |-> StoredColumns(t)]

\* lines 181-183: for t in tables: df = store[...]; orca.add_table(t, df).
\* A key the store does not hold raises KeyError; the tables registered
\* before it stay registered.
RECURSIVE LoadEach(_, _, _, _, _)
LoadEach(file, part, tabs, T, CC) ==
    IF tabs = <<>> THEN [ok |-> TRUE, T |-> T, CC |-> CC]
    ELSE LET t == Head(tabs)
         IN  IF <<part, t>> \notin store[file]
             THEN [ok |-> FALSE, T |-> T, CC |-> CC]
             ELSE LET a == add_table(T, CC, t, Frame(file, part, t))
                  IN  LoadEach(file, part, Tail(tabs), a.T, a.CC)

\* load_tables(h5, year, tables) with a list of tables
load_tables(file, part, tabs) == LoadEach(file, part, tabs, TABLES, COLUMN_CACHE)

(***************************************************************************)
(* get_indicators (framework.py 245-292)                                   *)
(***************************************************************************)
\* The lists of tables a caller passes.
TableLists == {<<"buildings", "households", "persons">>, <<"households", "persons">>}

\* The aggregation functions a caller passes, by the columns and injectables
\* they read through orca.
AggFuncs ==
    { [cols |-> {<<"buildings", "res_hh">>}, injs |-> {}],
      [cols |-> {<<"buildings", "sqft_per_res_unit">>, <<"persons", "is_adult">>},
       injs |-> {"job_model_sectors"}],
      [cols |-> {<<"households", "parcel_id">>}, injs |-> {}] }

EmptyDict == [y \in {} |-> 0]
DictPut(d, k, v) == [x \in (DOMAIN d) \cup {k} |-> IF x = k THEN v ELSE d[x]]

\* No call of get_indicators.
GI_NoCall ==
    /\ sim_h5 = Missing
    /\ tabs_to_process = Missing
    /\ h5 = ""
    /\ years = <<>>
    /\ tables = <<>>
    /\ agg_func = [cols |-> {}, injs |-> {}]
    /\ gi_i = 0
    /\ to_concat = EmptyDict
    /\ gi_pc = "idle"
    /\ gi_ret = Missing
    /\ exc = Missing
    /\ loads = <<>>

GI_Idle ==
    /\ store = [f \in H5Files |-> {}]
    /\ GI_NoCall

\* A call of get_indicators(h5, years, tables, by, agg_func): the files hold
\* every partition but at most one; the module globals sim_h5 and
\* tabs_to_process are undefined, as in framework.py, or were set by the
\* caller's code.
GI_Init ==
    /\ \E gone \in {{}} \cup {{p} : p \in Parts} :
         store = [f \in H5Files |-> {k \in AllKeys : k[1] \notin gone}]
    /\ sim_h5 \in {Missing} \cup {Some(f) : f \in H5Files}
    /\ tabs_to_process \in {Missing} \cup {Some(l) : l \in TableLists}
    /\ h5 \in H5Files
    /\ years \in SeqsOf(RunYears, 0, MaxYears)
    /\ tables \in TableLists
    /\ agg_func \in AggFuncs
    /\ gi_i = 0
    /\ to_concat = EmptyDict
    /\ gi_pc = "call"
    /\ gi_ret = Missing
    /\ exc = Missing
    /\ loads = <<>>

\* The registry when get_indicators is called: nothing registered yet, or the
\* base tables registered and every cached column and injectable computed
\* (stamp 0) by earlier use.
ORCA_InitForRun ==
    /\ \/ /\ TABLES = [t \in TableNames |-> Missing]
          /\ COLUMN_CACHE = [c \in Columns |-> Missing]
          /\ INJECTABLE_CACHE = [n \in InjNames |-> Missing]
       \/ /\ TABLES = [t \in TableNames |-> Some(Frame("sim.h5", "base", t))]
          /\ COLUMN_CACHE = [c \in Columns |->
                               IF RegOf(c).cache THEN Some(0) ELSE Missing]
          /\ INJECTABLE_CACHE = [n \in InjNames |->
                               IF InjOf(n).cache THEN Some(0) ELSE Missing]
    /\ last_access = NoAccess

\* The year the loop is at.
CurYear == years[gi_i]
AfterYear == IF gi_i + 1 > Len(years) THEN "return" ELSE "load"

\* lines 284-287: 'base' for the base year, the year itself otherwise
PartOf(y) == IF y = BaseYear THEN "base" ELSE PartName(y)

\* lines 285, 287: the store and the tables handed to load_tables
LoadArgs == [file |-> sim_h5, tabs |-> tabs_to_process]

\* lines 275-279: base_year, to_concat = {}, the for loop starts
GI_Enter ==
    /\ gi_pc = "call"
    /\ gi_i' = 1
    /\ to_concat' = EmptyDict
    /\ gi_pc' = IF years = <<>> THEN "return" ELSE "load"
    /\ UNCHANGED <<store, sim_h5, tabs_to_process, h5, years, tables, agg_func,
                   gi_ret, exc, loads>>
    /\ UNCHANGED <<orcaVars, notRun>>

\* lines 280-287: gc.collect(), then load_tables for the year; it completes
GI_Load ==
    /\ gi_pc = "load"
    /\ ~IsMissing(LoadArgs.file) /\ ~IsMissing(LoadArgs.tabs)
    /\ LET r == load_tables(Val(LoadArgs.file), PartOf(CurYear), Val(LoadArgs.tabs))
       IN  /\ r.ok
           /\ TABLES' = r.T
           /\ COLUMN_CACHE' = r.CC
           /\ loads' = Append(loads, [it |-> gi_i, year |-> CurYear,
                                      h5 |-> Val(LoadArgs.file),
                                      part |-> PartOf(CurYear),
                                      tables |-> Val(LoadArgs.tabs),
                                      after |-> r.T])
    /\ gi_pc' = "agg"
    /\ UNCHANGED <<store, sim_h5, tabs_to_process, h5, years, tables, agg_func,
                   gi_i, to_concat, gi_ret, exc>>
    /\ UNCHANGED <<INJECTABLE_CACHE, last_access, notRun>>

\* lines 280-287, mutated: the failing year is skipped (try/except: continue)
GI_LoadRaise_SkipYear ==
    /\ gi_pc = "load"
    /\ \/ IsMissing(LoadArgs.file) \/ IsMissing(LoadArgs.tabs)
       \/ ~load_tables(Val(LoadArgs.file), PartOf(CurYear), Val(LoadArgs.tabs)).ok
    /\ gi_i' = gi_i + 1
    /\ gi_pc' = AfterYear
    /\ UNCHANGED <<store, sim_h5, tabs_to_process, h5, years, tables, agg_func,
                   to_concat, gi_ret, exc, loads>>
    /\ UNCHANGED <<orcaVars, notRun>>
\* lines 280-287: the load raises: NameError for an undefined global, KeyError
\* for a key the store does not hold (the tables loaded before it stay). The
\* exception leaves get_indicators: nothing catches it.
GI_LoadRaise ==
    /\ gi_pc = "load"
    /\ IF IsMissing(LoadArgs.file) \/ IsMissing(LoadArgs.tabs)
       THEN /\ exc' = Some([kind |-> "NameError", it |-> gi_i])
            /\ UNCHANGED <<TABLES, COLUMN_CACHE>>
       ELSE LET r == load_tables(Val(LoadArgs.file), PartOf(CurYear),
                                 Val(LoadArgs.tabs))
            IN  /\ ~r.ok
                /\ exc' = Some([kind |-> "KeyError", it |-> gi_i])
                /\ TABLES' = r.T
                /\ COLUMN_CACHE' = r.CC
    /\ gi_pc' = "raised"
    /\ UNCHANGED <<store, sim_h5, tabs_to_process, h5, years, tables, agg_func,
                   gi_i, to_concat, gi_ret, loads>>
    /\ UNCHANGED <<INJECTABLE_CACHE, last_access, notRun>>

\* agg_func can run when the tables its columns read are registered.
AggCanRun == \A c \in agg_func.cols : \A t \in RegOf(c).deps : ~IsMissing(TABLES[t])

\* line 290, mutated: every result stored under the first year
ResultKey_FirstYear == years[1]
\* line 290: to_concat[y]
ResultKey == CurYear

\* line 290: to_concat[y] = agg_func(by, **agg_kwargs). agg_func reads its
\* columns and injectables through the caches; what it computes in the pass
\* for year number gi_i is stamped gi_i.
GI_Agg ==
    /\ gi_pc = "agg"
    /\ AggCanRun
    /\ LET rc == ReadColumns(COLUMN_CACHE, agg_func.cols, gi_i)
           ri == ReadInjectables(INJECTABLE_CACHE, agg_func.injs, gi_i)
       IN  /\ COLUMN_CACHE' = rc.CC
           /\ INJECTABLE_CACHE' = ri.IC
           /\ to_concat' = DictPut(to_concat, ResultKey,
                                   [it |-> gi_i, seen |-> TABLES,
                                    cols |-> rc.values, injs |-> ri.values])
    /\ gi_i' = gi_i + 1
    /\ gi_pc' = AfterYear
    /\ UNCHANGED <<store, sim_h5, tabs_to_process, h5, years, tables, agg_func,
                   gi_ret, exc, loads>>
    /\ UNCHANGED <<TABLES, last_access, notRun>>

\* line 290: agg_func raises (a table it reads was never registered)
GI_AggRaise ==
    /\ gi_pc = "agg"
    /\ ~AggCanRun
    /\ exc' = Some([kind |-> "KeyError", it |-> gi_i])
    /\ gi_pc' = "raised"
    /\ UNCHANGED <<store, sim_h5, tabs_to_process, h5, years, tables, agg_func,
                   gi_i, to_concat, gi_ret, loads>>
    /\ UNCHANGED <<orcaVars, notRun>>

\* line 292: return to_concat
GI_Return ==
    /\ gi_pc = "return"
    /\ gi_ret' = Some(to_concat)
    /\ gi_pc' = "done"
    /\ UNCHANGED <<store, sim_h5, tabs_to_process, h5, years, tables, agg_func,
                   gi_i, to_concat, exc, loads>>
    /\ UNCHANGED <<orcaVars, notRun>>

(***************************************************************************)
(* Cache clearing: clear_cache, clear_table, clear_injectable              *)
(* (framework.py 10-50), column reads, and orca's clear of one scope       *)
(***************************************************************************)
\* DataFrameWrapper.local_columns
local_columns_of(t) == Val(TABLES[t]).columns
\* DataFrameWrapper.columns: the local columns and the registered ones
columns_of(t) == local_columns_of(t) \cup {c[2] : c \in ColumnsOf(t)}

\* ColumnFuncWrapper.clear_cached for the columns of S
ClearColumns(CC, S) == [c \in Columns |-> IF c \in S THEN Missing ELSE CC[c]]

\* line 25: set(orca_tab.columns).difference(set(orca_tab.local_columns))
DefaultColumns(t) == columns_of(t) \ local_columns_of(t)

\* lines 28-29, mutated: the loop ends after its first column
ClearEach_FirstOnly(CC, t, names) ==
    IF names = <<>> THEN [ok |-> TRUE, CC |-> CC]
    ELSE IF <<t, Head(names)>> \notin Columns THEN [ok |-> FALSE, CC |-> CC]
    ELSE [ok |-> TRUE, CC |-> ClearColumns(CC, {<<t, Head(names)>>})]
\* lines 28-29: for col in columns: orca.orca._COLUMNS[(table_name, col)]
\* .clear_cached(); a name that is no registered column raises KeyError and
\* the columns cleared before it stay cleared.
RECURSIVE ClearEach(_, _, _)
ClearEach(CC, t, names) ==
    IF names = <<>> THEN [ok |-> TRUE, CC |-> CC]
    ELSE IF <<t, Head(names)>> \notin Columns THEN [ok |-> FALSE, CC |-> CC]
    ELSE ClearEach(ClearColumns(CC, {<<t, Head(names)>>}), t, Tail(names))

\* A set as a list, in some order (list(set(...))).
RECURSIVE ListOf(_)
ListOf(S) == IF S = {} THEN <<>>
             ELSE LET e == CHOOSE x \in S : TRUE IN <<e>> \o ListOf(S \ {e})

\* clear_cache(table_name, columns), lines 23-31. columns is None
\* ([kind |-> "none"]), a list of names or a single name.
clear_cache(CC, t, columns) ==
    IF columns.kind = "none" THEN ClearEach(CC, t, ListOf(DefaultColumns(t)))
    ELSE IF columns.kind = "list" THEN ClearEach(CC, t, columns.names)
    ELSE IF <<t, columns.name>> \notin Columns THEN [ok |-> FALSE, CC |-> CC]
    ELSE [ok |-> TRUE, CC |-> ClearColumns(CC, {<<t, columns.name>>})]

\* The entries of the column cache that lost a value between CC and CC2.
Dropped(CC, CC2) == {c \in Columns : ~IsMissing(CC[c]) /\ IsMissing(CC2[c])}

\* The names clear_cache is called with: the table's registered columns and
\* one local column.
ClearNames(t) == {c[2] : c \in ColumnsOf(t)} \cup {CHOOSE n \in StoredColumns(t) : TRUE}
ClearArgs(t) ==
    {[kind |-> "none"]}
    \cup {[kind |-> "list", names |-> l] : l \in SeqsOf(ClearNames(t), 0, MaxClearList)}
    \cup {[kind |-> "name", name |-> n] : n \in ClearNames(t)}

\* The registry after the tables were loaded: a stored frame may also hold a
\* column under the name of a registered column.
ORCA_InitLoaded ==
    /\ \E extra \in {f \in [TableNames -> SUBSET {c[2] : c \in Columns}] :
                        \A t \in TableNames : f[t] \subseteq {c[2] : c \in ColumnsOf(t)}} :
         TABLES = [t \in TableNames |->
                     Some([h5 |-> "sim.h5", part |-> "base", table |-> t,
                           columns |-> StoredColumns(t) \cup extra[t]])]
    /\ COLUMN_CACHE = [c \in Columns |-> Missing]
    /\ INJECTABLE_CACHE = [n \in InjNames |-> Missing]
    /\ last_access = NoAccess

\* table[column] for a registered column
Cache_ReadColumn ==
    \E c \in Columns :
        LET r == ReadColumn(COLUMN_CACHE, c, gi_i)
        IN  /\ COLUMN_CACHE' = r.CC
            /\ last_access' = [kind |-> "column", key |-> c, ran |-> r.ran,
                               raised |-> FALSE, cleared |-> {}]
            /\ UNCHANGED <<TABLES, INJECTABLE_CACHE, notCache>>

\* orca.get_injectable(name) for an injectable function
Cache_ReadInjectable ==
    \E n \in InjNames :
        LET r == ReadInjectable(INJECTABLE_CACHE, n, gi_i)
        IN  /\ INJECTABLE_CACHE' = r.IC
            /\ last_access' = [kind |-> "injectable", key |-> n, ran |-> r.ran,
                               raised |-> FALSE, cleared |-> {}]
            /\ UNCHANGED <<TABLES, COLUMN_CACHE, notCache>>

\* clear_cache(table_name, columns)
Cache_clear_cache ==
    \E t \in TableNames : \E a \in ClearArgs(t) :
        LET r == clear_cache(COLUMN_CACHE, t, a)
        IN  /\ COLUMN_CACHE' = r.CC
            /\ last_access' = [kind |-> "clear_cache", key |-> <<t, a>>,
                               ran |-> FALSE, raised |-> ~r.ok,
                               cleared |-> Dropped(COLUMN_CACHE, r.CC)]
            /\ UNCHANGED <<TABLES, INJECTABLE_CACHE, notCache>>

\* clear_table(table_name), line 41: the wrapper's clear_cached drops the
\* cached value of every column registered on the table
Cache_clear_table ==
    \E t \in TableNames :
        LET CC2 == ClearColumns(COLUMN_CACHE, ColumnsOf(t))
        IN  /\ COLUMN_CACHE' = CC2
            /\ last_access' = [kind |-> "clear_table", key |-> t, ran |-> FALSE,
                               raised |-> FALSE,
                               cleared |-> Dropped(COLUMN_CACHE, CC2)]
            /\ UNCHANGED <<TABLES, INJECTABLE_CACHE, notCache>>

\* clear_injectable(injectable_name), line 50
Cache_clear_injectable ==
    \E n \in InjNames :
        /\ INJECTABLE_CACHE' = [INJECTABLE_CACHE EXCEPT ![n] = Missing]
        /\ last_access' = [kind |-> "clear_injectable", key |-> n, ran |-> FALSE,
                           raised |-> FALSE, cleared |-> {}]
        /\ UNCHANGED <<TABLES, COLUMN_CACHE, notCache>>

\* orca.clear_cache(scope='iteration'), what orca runs between iterations:
\* every cache entry whose scope is 'iteration' is dropped
Cache_clear_scope ==
    LET CC2 == [c \in Columns |-> IF RegOf(c).scope = "iteration" THEN Missing
                                  ELSE COLUMN_CACHE[c]]
    IN  /\ COLUMN_CACHE' = CC2
        /\ INJECTABLE_CACHE' = [n \in InjNames |->
                                  IF InjOf(n).scope = "iteration" THEN Missing
                                  ELSE INJECTABLE_CACHE[n]]
        /\ last_access' = [kind |-> "clear_scope", key |-> "iteration",
                           ran |-> FALSE, raised |-> FALSE,
                           cleared |-> Dropped(COLUMN_CACHE, CC2)]
        /\ UNCHANGED <<TABLES, notCache>>

(***************************************************************************)
(* The column functions of make_broadcast_injectable,                      *)
(* make_reindex_injectable and make_series_broadcast_injectable            *)
(* (framework.py 89-148)                                                   *)
(***************************************************************************)
JoinKeys == 1 .. MaxKey

\* smartpy_core.wrangling.broadcast(right, left): for each row of left, the
\* value of right at the key the row holds, missing where right has no such
\* key; the result is indexed like left.
broadcast(right, left) ==
    [i \in DOMAIN left |->
        IF left[i] \in DOMAIN right THEN right[left[i]] ELSE Missing]

\* pandas Series.reindex(index): missing where the series has no such label
reindex(series, index) ==
    [i \in index |-> IF i \in DOMAIN series THEN series[i] ELSE Missing]

\* pandas Series.fillna(v)
fillna(series, v) ==
    [i \in DOMAIN series |-> IF IsMissing(series[i]) THEN Some(v) ELSE series[i]]

\* lines 110-115, mutated: to_table's index taken for the foreign key
broadcast_template_ByIndex == broadcast(from_col, [i \in DOMAIN to_fkey |-> i])
\* lines 110-115: broadcast(from_table[col_name], to_table[fkey])
broadcast_template == broadcast(from_col, to_fkey)

\* lines 125-128: from_wrap[col_name].reindex(to_wrap.index).fillna(0)
reindex_template == fillna(reindex(from_col, DOMAIN to_fkey), 0)

\* lines 139-146, mutated: 'if fill_with:' (a fill_with of 0 is not applied)
s_broadcast_template_Truthy(fill_with) ==
    LET b == broadcast(from_col, to_fkey)
    IN  IF ~IsMissing(fill_with) /\ Val(fill_with) # 0
        THEN fillna(b, Val(fill_with)) ELSE b
\* lines 139-146: the broadcast of the injected series, then
\* 'if fill_with is not None: b.fillna(fill_with, inplace=True)'
s_broadcast_template(fill_with) ==
    LET b == broadcast(from_col, to_fkey)
    IN  IF ~IsMissing(fill_with) THEN fillna(b, Val(fill_with)) ELSE b

\* The fill_with arguments tried: None, 0 and another number.
FillValues == {Missing, Some(0), Some(-1)}

\* from_table[col_name] holds 10 * key, or a missing value, for the keys of
\* from_table; to_table has rows 1..n, each holding a key in its fkey column.
Join_Init ==
    /\ \E K \in SUBSET JoinKeys : \E M \in SUBSET K :
         from_col = [k \in K |-> IF k \in M THEN Missing ELSE Some(10 * k)]
    /\ to_fkey \in SeqsOf(JoinKeys, 1, MaxRows)
    /\ join_call = Missing
    /\ join_out = <<>>

\* to_table[col_name] for a column registered by make_broadcast_injectable
Join_broadcast ==
    /\ IsMissing(join_call)
    /\ join_call' = Some([kind |-> "broadcast", fill_with |-> Missing])
    /\ join_out' = broadcast_template
    /\ UNCHANGED <<from_col, to_fkey, notJoin>>

\* to_table[col_name] for a column registered by make_reindex_injectable
Join_reindex ==
    /\ IsMissing(join_call)
    /\ join_call' = Some([kind |-> "reindex", fill_with |-> Missing])
    /\ join_out' = reindex_template
    /\ UNCHANGED <<from_col, to_fkey, notJoin>>

\* to_table[col_name] for a column registered by
\* make_series_broadcast_injectable(..., fill_with)
Join_series_broadcast ==
    /\ IsMissing(join_call)
    /\ \E fill_with \in FillValues :
         /\ join_call' = Some([kind |-> "series", fill_with |-> fill_with])
         /\ join_out' = s_broadcast_template(fill_with)
    /\ UNCHANGED <<from_col, to_fkey, notJoin>>

Join_Idle ==
    /\ from_col = <<>>
    /\ to_fkey = <<>>
    /\ join_call = Missing
    /\ join_out = <<>>

(***************************************************************************)
(* compile_to_cols (framework.py 295-333)                                  *)
(*                                                                         *)
(* A frame is [index, names, columns, rows]: index is the sequence of row  *)
(* labels (a label is a tuple with one entry per index level), names the   *)
(* level names (Missing for None), columns the column labels, rows[r] the  *)
(* cells of row r in column order. The cell agg_func put in column m of    *)
(* the row labelled g of year y's frame is written <<y, m, g>>.            *)
(***************************************************************************)
\* The frame agg_func returned for year y: metrics as columns, index as rows.
YearFrame(y, metrics, index, names) ==
    [index |-> index, names |-> names, columns |-> metrics,
     rows |-> [r \in DOMAIN index |->
                 [j \in DOMAIN metrics |-> <<y, metrics[j], index[r]>>]]]

\* line 316: pd.concat(to_concat, axis=1) on frames that share their index:
\* the columns of each frame in the dict's order, each labelled
\* <<key, column>>, on the shared index.
RECURSIVE concat_axis1(_)
concat_axis1(d) ==
    IF Len(d) = 1
    THEN LET y == d[1][1]
             f == d[1][2]
         IN  [f EXCEPT !.columns = [j \in DOMAIN f.columns |-> <<y, f.columns[j]>>]]
    ELSE LET head == concat_axis1(SubSeq(d, 1, Len(d) - 1))
             last == concat_axis1(<<d[Len(d)]>>)
         IN  [head EXCEPT !.columns = head.columns \o last.columns,
                          !.rows = [r \in DOMAIN head.rows |->
                                       head.rows[r] \o last.rows[r]]]

\* '{}'.format(v) for a year (an integer) or a column name (a string)
FormatYear(v) == ToString(v)

\* line 326, mutated: the two levels in the order of the column index
CollapsedLabel_YearFirst(x, y) == FormatYear(x) \o "_" \o y
\* lines 321-326: '{}{}{}'.format(y, '_', x) for x, y in zip(level 0, level 1)
CollapsedLabel(x, y) == y \o "_" \o FormatYear(x)

\* lines 320-326: c.columns = [...]
collapse_columns(c) ==
    [c EXCEPT !.columns = [j \in DOMAIN c.columns |->
                              CollapsedLabel(c.columns[j][1], c.columns[j][2])]]

\* line 329: collapse_row_idx and c.index.nlevels > 1
ResetsIndex(collapse_row_idx, c) == collapse_row_idx /\ Len(c.names) > 1

\* line 331: c.reset_index(inplace=True): the index levels become the first
\* columns (labelled <<name, "">> under two-level column labels), the index
\* becomes 0 .. n-1.
reset_index(c, flat) ==
    [index |-> [r \in DOMAIN c.index |-> <<r - 1>>],
     names |-> <<Missing>>,
     columns |-> [l \in DOMAIN c.names |->
                     IF flat THEN Val(c.names[l]) ELSE <<Val(c.names[l]), "">>]
                 \o c.columns,
     rows |-> [r \in DOMAIN c.rows |-> c.index[r] \o c.rows[r]]]

\* compile_to_cols(to_concat, collapse_col_idx, collapse_row_idx)
compile_to_cols(d, collapse_col_idx, collapse_row_idx) ==
    LET c0 == concat_axis1(d)
        c1 == IF collapse_col_idx THEN collapse_columns(c0) ELSE c0
    IN  IF ResetsIndex(collapse_row_idx, c1)
        THEN reset_index(c1, collapse_col_idx) ELSE c1

\* The sequences over S without repeats, of length lo..hi.
DistinctSeqs(S, lo, hi) ==
    {s \in SeqsOf(S, lo, hi) : \A a, b \in DOMAIN s : a # b => s[a] # s[b]}

\* The results of a run: agg_func's columns, and its grouping (one or two
\* index levels), the same for every year.
MetricLists == {<<"pop">>, <<"pop", "jobs">>}
Groupings ==
    {[names |-> <<Some("county")>>, index |-> ix] :
        ix \in DistinctSeqs({<<"a">>, <<"b">>}, 1, MaxGroups)}
    \cup
    {[names |-> <<Some("county"), Some("mpa")>>, index |-> ix] :
        ix \in DistinctSeqs({<<"a", "x">>, <<"a", "y">>, <<"b", "x">>}, 1, MaxGroups)}

CC_Init ==
    /\ \E ys \in DistinctSeqs(RunYears, 1, MaxCompileYears) :
       \E ms \in MetricLists : \E g \in Groupings :
         cc_in = [k \in DOMAIN ys |-> <<ys[k], YearFrame(ys[k], ms, g.index, g.names)>>]
    /\ cc_flags \in BOOLEAN \X BOOLEAN
    /\ cc_out = Missing

CC_compile_to_cols ==
    /\ IsMissing(cc_out)
    /\ cc_out' = Some(compile_to_cols(cc_in, cc_flags[1], cc_flags[2]))
    /\ UNCHANGED <<cc_in, cc_flags, notCompile>>

CC_Idle ==
    /\ cc_in = <<>>
    /\ cc_flags = <<FALSE, FALSE>>
    /\ cc_out = Missing

(***************************************************************************)
(* compile_to_rows (framework.py 336-362)                                  *)
(***************************************************************************)
\* line 354: pd.concat(to_concat): the rows of each frame in the dict's
\* order, the dict's key put in front of each row label as a new outermost
\* index level without a name.
RECURSIVE concat_axis0(_)
concat_axis0(d) ==
    IF Len(d) = 1
    THEN LET y == d[1][1]
             f == d[1][2]
         IN  [f EXCEPT !.index = [r \in DOMAIN f.index |-> <<y>> \o f.index[r]],
                       !.names = <<Missing>> \o f.names]
    ELSE LET head == concat_axis0(SubSeq(d, 1, Len(d) - 1))
             last == concat_axis0(<<d[Len(d)]>>)
         IN  [head EXCEPT !.index = head.index \o last.index,
                          !.rows = head.rows \o last.rows]

\* line 355: grp_levels = list(c.index.names[1:])
grp_levels_of(c) == Tail(c.names)

\* line 356: c.index.names = ['year'] + grp_levels
rename_index(c) == [c EXCEPT !.names = <<Some("year")>> \o grp_levels_of(c)]

\* The items of s at the positions not in P, in order.
RECURSIVE DropAt(_, _)
DropAt(s, P) ==
    IF s = <<>> THEN <<>>
    ELSE DropAt(SubSeq(s, 1, Len(s) - 1), P)
         \o (IF Len(s) \in P THEN <<>> ELSE <<s[Len(s)]>>)

\* line 360: c.set_index(keys, inplace=True): the columns named by keys
\* become the index levels, in the order of keys, and leave the columns.
set_index(c, keys) ==
    LET pos == [l \in DOMAIN keys |->
                   CHOOSE j \in DOMAIN c.columns : c.columns[j] = Val(keys[l])]
    IN  [index |-> [r \in DOMAIN c.rows |-> [l \in DOMAIN keys |-> c.rows[r][pos[l]]]],
         names |-> keys,
         columns |-> DropAt(c.columns, Range(pos)),
         rows |-> [r \in DOMAIN c.rows |-> DropAt(c.rows[r], Range(pos))]]

\* line 359, mutated: the single grouping level not restored
RestoresIndex_OnlyWhenAsked(collapse_row_idx, grp_levels) == ~collapse_row_idx
\* line 359: not collapse_row_idx or len(grp_levels) == 1
RestoresIndex(collapse_row_idx, grp_levels) ==
    ~collapse_row_idx \/ Len(grp_levels) = 1

\* compile_to_rows(to_concat, collapse_row_idx)
compile_to_rows(d, collapse_row_idx) ==
    LET c0 == concat_axis0(d)
        grp_levels == grp_levels_of(c0)
        c1 == reset_index(rename_index(c0), TRUE)
    IN  IF RestoresIndex(collapse_row_idx, grp_levels)
        THEN set_index(c1, grp_levels) ELSE c1

\* The results compiled row-wise: the same columns and grouping levels for
\* every year, the groups present differing from year to year.
CR_Init ==
    /\ \E ys \in DistinctSeqs(RunYears, 1, MaxCompileYears) :
       \E ms \in MetricLists : \E ns \in {g.names : g \in Groupings} :
       \E gs \in [DOMAIN ys -> {g \in Groupings : g.names = ns}] :
         cr_in = [k \in DOMAIN ys |-> <<ys[k], YearFrame(ys[k], ms, gs[k].index, ns)>>]
    /\ cr_collapse \in BOOLEAN
    /\ cr_out = Missing

CR_compile_to_rows ==
    /\ IsMissing(cr_out)
    /\ cr_out' = Some(compile_to_rows(cr_in, cr_collapse))
    /\ UNCHANGED <<cr_in, cr_collapse, notCompileRows>>

CR_Idle ==
    /\ cr_in = <<>>
    /\ cr_collapse = FALSE
    /\ cr_out = Missing

(***************************************************************************)
(* load_tables without a list of tables and list_store_tables              *)
(* (framework.py 156-183, 213-237)                                         *)
(*                                                                         *)
(* The keys of a store are texts '/<partition>/<table>'; the year argument *)
(* is modelled by its text '{}'.format(year): 'base' or the year's digits. *)
(***************************************************************************)
\* A partition a file may hold besides those of the run, its name starting
\* with the name of one of them (a copy kept as /2019_old, /base_old).
AltPart(p) == p \o "_old"
StoreParts == Parts \cup {AltPart(p) : p \in Parts}

\* The partition and table names in name order (digits before letters).
RECURSIVE YearPartsUpTo(_)
YearPartsUpTo(y) ==
    IF y < BaseYear THEN <<>>
    ELSE YearPartsUpTo(y - 1) \o <<PartName(y), AltPart(PartName(y))>>
OrderedParts == YearPartsUpTo(BaseYear + RunSpan) \o <<"base", AltPart("base")>>
OrderedTables == <<"buildings", "households", "persons">>
OrderedKeys ==
    [i \in 1 .. (Len(OrderedParts) * Len(OrderedTables)) |->
        <<OrderedParts[((i - 1) \div Len(OrderedTables)) + 1],
          OrderedTables[((i - 1) % Len(OrderedTables)) + 1]>>]

\* The text of the key of table t in partition p
KeyText(p, t) == "/" \o p \o "/" \o t

\* store.keys(): the keys the file holds, in name order
keys(file) ==
    LET held == SelectSeq(OrderedKeys, LAMBDA k : k \in store[file])
    IN  [i \in DOMAIN held |-> KeyText(held[i][1], held[i][2])]

\* str.startswith
startswith(s, prefix) ==
    /\ Len(s) >= Len(prefix)
    /\ SubSeq(s, 1, Len(prefix)) = prefix

\* t.split('/')[-1]: the text after the last '/'
LastSegment(s) ==
    LET slashes == {i \in 1 .. Len(s) : SubSeq(s, i, i) = "/"}
    IN  IF slashes = {} THEN s ELSE SubSeq(s, SetMax(slashes) + 1, Len(s))

\* lines 175, 233: [t for t in store.keys() if t.startswith('/{}'.format(year))]
KeysOfYear(file, yeartext) ==
    SelectSeq(keys(file), LAMBDA t : startswith(t, "/" \o yeartext))

\* line 175: tables = [t.split('/')[-1] for t in store.keys() if ...]
TablesOfYear(file, yeartext) ==
    LET ks == KeysOfYear(file, yeartext)
    IN  [i \in DOMAIN ks |-> LastSegment(ks[i])]

\* list_store_tables(h5, year, full)
list_store_tables(file, yeartext, full) ==
    IF full THEN KeysOfYear(file, yeartext) ELSE TablesOfYear(file, yeartext)

\* load_tables(h5, year, tables): lines 174-178 choose the tables, then the
\* loop of lines 181-183
load_tables_call(file, yeartext, tabs) ==
    load_tables(file, yeartext,
                IF IsMissing(tabs) THEN TablesOfYear(file, yeartext) ELSE Val(tabs))

\* The calls made: load_tables with no list or a list of tables, and
\* list_store_tables with either value of full, on files where one partition
\* (of the run, with any of its tables) has a copy of some of the tables.
LT_Init ==
    /\ \E p \in Parts : \E own, alt \in SUBSET TableNames :
         store = [f \in H5Files |->
                    {k \in AllKeys : k[1] # p}
                    \cup {<<p, t>> : t \in own}
                    \cup {<<AltPart(p), t>> : t \in alt}]
    /\ GI_NoCall
    /\ \E f \in H5Files : \E y \in Parts :
         \/ \E tabs \in {Missing} \cup {Some(l) : l \in TableLists} :
              lt_call = [fn |-> "load_tables", h5 |-> f, year |-> y,
                         tables |-> tabs, full |-> FALSE, before |-> TABLES]
         \/ \E full \in BOOLEAN :
              lt_call = [fn |-> "list_store_tables", h5 |-> f, year |-> y,
                         tables |-> Missing, full |-> full, before |-> TABLES]
    /\ lt_ret = Missing

LT_load_tables ==
    /\ IsMissing(lt_ret)
    /\ lt_call.fn = "load_tables"
    /\ LET r == load_tables_call(lt_call.h5, lt_call.year, lt_call.tables)
       IN  /\ TABLES' = r.T
           /\ COLUMN_CACHE' = r.CC
           /\ lt_ret' = Some([raised |-> ~r.ok, value |-> <<>>])
    /\ UNCHANGED <<INJECTABLE_CACHE, last_access, giVars, lt_call, notLoad>>

LT_list_store_tables ==
    /\ IsMissing(lt_ret)
    /\ lt_call.fn = "list_store_tables"
    /\ lt_ret' = Some([raised |-> FALSE,
                       value |-> list_store_tables(lt_call.h5, lt_call.year,
                                                   lt_call.full)])
    /\ UNCHANGED <<orcaVars, giVars, lt_call, notLoad>>

LT_Idle ==
    /\ lt_call = Missing
    /\ lt_ret = Missing

(***************************************************************************)
(* The 'year' injectable and the columns that read it                      *)
(* (variables.py 30-42, 218-229, 289-291)                                  *)
(***************************************************************************)
\* variables.py 30-42: @orca.injectable() def year(base_year), not cached:
\* iter_var if it is registered and not None, else base_year
year_injectable(iv) ==
    IF ~IsMissing(iv) /\ ~IsMissing(Val(iv)) THEN Val(Val(iv)) ELSE BaseYear

\* variables.py 218-229: the parcels column freeway_dist returns
freeway_dist(yr) ==
    IF yr <= 2024 THEN "fwys_2019_dist"
    ELSE IF yr <= 2030 THEN "fwys_2030_dist"
    ELSE "fwys_2031_dist"

\* variables.py 289-291: year - buildings['year_built'], for one building
building_age(yr, year_built) == yr - year_built

YearsBuilt == (BaseYear - BuiltSpan) .. (BaseYear + RunSpan)

\* 'iter_var' when get_indicators is called: never registered, or left by an
\* earlier orca.run as None or as the last year it ran (a year of the store,
\* or end_year).
IV_Init ==
    iter_var \in {Missing, Some(Missing)}
                 \cup {Some(Some(y)) : y \in RunYears \cup {EndYear}}

\* The calls of get_indicators on the store 'sim.h5' whose module globals
\* are both undefined or both set by the caller's code.
GI_InitYear ==
    /\ GI_Init
    /\ h5 = "sim.h5"
    /\ tables = <<"households", "persons">>
    /\ sim_h5 \in {Missing, Some("sim.h5")}
    /\ IsMissing(sim_h5) <=> IsMissing(tabs_to_process)

(***************************************************************************)
(* Specifications                                                          *)
(***************************************************************************)
\* get_year_bin on every list and year of the bounds
InitYearBin ==
    /\ YB_Init /\ ORCA_Idle /\ GI_Idle /\ Join_Idle /\ CC_Idle /\ CR_Idle /\ LT_Idle
    /\ IV_Unset
NextYearBin == YB_Enter \/ YB_Loop \/ YB_Return
SpecYearBin == InitYearBin /\ [][NextYearBin]_vars

\* one read of a broadcast, reindex or series-broadcast column
InitJoin ==
    /\ Join_Init /\ ORCA_Idle /\ GI_Idle /\ YB_Idle /\ CC_Idle /\ CR_Idle /\ LT_Idle
    /\ IV_Unset
NextJoin == Join_broadcast \/ Join_reindex \/ Join_series_broadcast
SpecJoin == InitJoin /\ [][NextJoin]_vars

\* one call of compile_to_cols
InitCompile ==
    /\ CC_Init /\ ORCA_Idle /\ GI_Idle /\ YB_Idle /\ Join_Idle /\ CR_Idle /\ LT_Idle
    /\ IV_Unset
NextCompile == CC_compile_to_cols
SpecCompile == InitCompile /\ [][NextCompile]_vars

\* one call of compile_to_rows
InitCompileRows ==
    /\ CR_Init /\ ORCA_Idle /\ GI_Idle /\ YB_Idle /\ Join_Idle /\ CC_Idle /\ LT_Idle
    /\ IV_Unset
NextCompileRows == CR_compile_to_rows
SpecCompileRows == InitCompileRows /\ [][NextCompileRows]_vars

\* one call of load_tables or list_store_tables
InitLoad ==
    /\ ORCA_InitForRun /\ LT_Init /\ YB_Idle /\ Join_Idle /\ CC_Idle /\ CR_Idle
    /\ IV_Unset
NextLoad == LT_load_tables \/ LT_list_store_tables
SpecLoad == InitLoad /\ [][NextLoad]_vars

\* column reads and cache clears on loaded tables
InitCache ==
    /\ ORCA_InitLoaded /\ GI_Idle /\ YB_Idle /\ Join_Idle /\ CC_Idle /\ CR_Idle /\ LT_Idle
    /\ IV_Unset
NextCache ==
    \/ Cache_ReadColumn \/ Cache_ReadInjectable \/ Cache_clear_cache
    \/ Cache_clear_table \/ Cache_clear_injectable \/ Cache_clear_scope
SpecCache == InitCache /\ [][NextCache]_vars

\* one call of get_indicators
Init ==
    /\ GI_Init /\ ORCA_InitForRun /\ YB_Idle /\ Join_Idle /\ CC_Idle /\ CR_Idle /\ LT_Idle
    /\ IV_Unset
Next == GI_Enter \/ GI_Load \/ GI_LoadRaise \/ GI_Agg \/ GI_AggRaise \/ GI_Return
Spec == Init /\ [][Next]_vars

\* one call of get_indicators, after orca.run or without
InitYear ==
    /\ GI_InitYear /\ ORCA_InitForRun /\ YB_Idle /\ Join_Idle /\ CC_Idle /\ CR_Idle
    /\ LT_Idle /\ IV_Init
NextYear == Next
SpecYear == InitYear /\ [][NextYear]_vars

(***************************************************************************)
(* C1                                                                      *)
(***************************************************************************)
\* The bin the claim names, read off the caller's list.
ExpectedBin(y, bins) ==
    LET B == Range(bins)
    IN  IF IsMissing(y) \/ Val(y) <= SetMin(B) THEN SetMin(B)
        ELSE SetMax({b \in B : b <= Val(y)})

\* C1: for every non-empty year_bins and every year (an integer or None),
\* get_year_bin returns the smallest bin when year is None or <= the smallest
\* bin, and otherwise the largest bin <= year; a year equal to a bin b returns
\* b, and a year above every bin returns the largest bin.
C1_YearBinContract ==
    yb_pc = "done" =>
        /\ yb_ret = Some(ExpectedBin(year, year_bins_arg))
        /\ (~IsMissing(year) /\ Val(year) \in Range(year_bins_arg)
                => yb_ret = year)
        /\ (~IsMissing(year) /\ (\A b \in Range(year_bins_arg) : b < Val(year))
                => yb_ret = Some(SetMax(Range(year_bins_arg))))

\* A call that went through the loop, on an unsorted list, for a year equal to
\* a bin that is neither the smallest nor the largest.
C1_Witness ==
    /\ yb_pc = "done"
    /\ ~IsMissing(year)
    /\ year_bins_arg # year_bins
    /\ Val(year) \in Range(year_bins_arg)
    /\ Val(year) > SetMin(Range(year_bins_arg))
    /\ Val(year) < SetMax(Range(year_bins_arg))
    /\ yb_ret = year

(***************************************************************************)
(* C2 - C5: get_indicators                                                 *)
(***************************************************************************)
CachesEmpty ==
    /\ \A c \in Columns : IsMissing(COLUMN_CACHE[c])
    /\ \A n \in InjNames : IsMissing(INJECTABLE_CACHE[n])

\* C2: for each year a full cache reset (every cached column and injectable
\* value discarded) happens before that year's tables are loaded, so the
\* caches are empty when the load has completed and agg_func is about to run,
\* and every value agg_func got for a year was computed in that year's pass.
C2_FullResetBeforeEachLoad ==
    /\ (gi_pc = "agg" => CachesEmpty)
    /\ \A y \in DOMAIN to_concat :
          /\ \A c \in DOMAIN to_concat[y].cols :
                to_concat[y].cols[c] = to_concat[y].it
          /\ \A n \in DOMAIN to_concat[y].injs :
                to_concat[y].injs[n] = to_concat[y].it

\* C3: every load get_indicators performs reads the caller's tables from the
\* caller's h5, from partition 'base' for the base year and from the
\* partition named after the year otherwise; the load needs no other name
\* than the arguments (it never ends in a NameError).
C3_LoadsUseCallerArguments ==
    /\ \A k \in DOMAIN loads :
          /\ loads[k].h5 = h5
          /\ loads[k].tables = tables
          /\ loads[k].part = IF loads[k].year = BaseYear THEN "base"
                             ELSE ToString(loads[k].year)
    /\ (~IsMissing(exc) => Val(exc).kind # "NameError")

LastIndexOf(y) == SetMax({k \in DOMAIN years : years[k] = y})

\* C4: a call in which no step fails loads the years in the order given and
\* returns a dict whose keys are exactly the years; the value for year y is
\* what agg_func returned when called after the (last) load for y, on the
\* tables as that load left them, before any later load.
C4_ResultsPerYear ==
    gi_pc = "done" =>
        /\ IsMissing(exc)
        /\ gi_ret = Some(to_concat)
        /\ DOMAIN to_concat = Range(years)
        /\ Len(loads) = Len(years)
        /\ \A k \in DOMAIN years : loads[k].it = k /\ loads[k].year = years[k]
        /\ \A y \in Range(years) :
              /\ to_concat[y].it = LastIndexOf(y)
              /\ to_concat[y].seen = loads[LastIndexOf(y)].after

\* A completed call on two different years.
C4_Witness ==
    /\ gi_pc = "done"
    /\ Len(years) = 2
    /\ years[1] # years[2]
    /\ DOMAIN Val(gi_ret) = {years[1], years[2]}

LoadCompletes ==
    /\ ~IsMissing(sim_h5)
    /\ ~IsMissing(tabs_to_process)
    /\ load_tables(Val(sim_h5), PartOf(CurYear), Val(tabs_to_process)).ok

\* C5: a year whose load or aggregation fails ends the call with the
\* exception: the step that cannot succeed leads to the raised state, which
\* nothing leaves; nothing is returned, no load follows the failing pass and
\* no result was recorded in or after it.
C5_FailureAborts ==
    /\ [](gi_pc = "raised" =>
            /\ ~IsMissing(exc)
            /\ IsMissing(gi_ret)
            /\ \A k \in DOMAIN loads : loads[k].it <= Val(exc).it
            /\ \A y \in DOMAIN to_concat : to_concat[y].it < Val(exc).it)
    /\ [][gi_pc = "load" /\ ~LoadCompletes => gi_pc' = "raised"]_vars
    /\ [][gi_pc = "agg" /\ ~AggCanRun => gi_pc' = "raised"]_vars
    /\ [][gi_pc = "raised" => UNCHANGED vars]_vars

\* The second year's load fails after the first year's result was recorded.
C5_Witness ==
    /\ gi_pc = "raised"
    /\ ~IsMissing(exc)
    /\ Val(exc).it = 2
    /\ DOMAIN to_concat = {years[1]}

(***************************************************************************)
(* C6, C7: cache clearing                                                  *)
(***************************************************************************)
\* C6: clear_cache(table_name) without columns clears the cached value of
\* every registered column of that table whose name is not a local column,
\* changes no cache entry of another table and leaves the registered frames
\* (the local columns) as they are; with a list of registered names or a
\* single registered name it clears exactly the named columns.
C6_ClearCacheFrame ==
    [][last_access'.kind = "clear_cache" /\ ~last_access'.raised =>
        LET t == last_access'.key[1]
            a == last_access'.key[2]
            named == IF a.kind = "list" THEN {<<t, n>> : n \in Range(a.names)}
                     ELSE IF a.kind = "name" THEN {<<t, a.name>>}
                     ELSE {}
        IN  /\ TABLES' = TABLES
            /\ INJECTABLE_CACHE' = INJECTABLE_CACHE
            /\ a.kind = "none" =>
                  /\ \A c \in ColumnsOf(t) :
                        c[2] \notin Val(TABLES[t]).columns
                            => IsMissing(COLUMN_CACHE'[c])
                  /\ \A c \in Columns :
                        c[1] # t => COLUMN_CACHE'[c] = COLUMN_CACHE[c]
            /\ a.kind # "none" =>
                  \A c \in Columns :
                      COLUMN_CACHE'[c] = IF c \in named THEN Missing
                                         ELSE COLUMN_CACHE[c]
    ]_vars

\* clear_cache('buildings') just dropped both cached columns of buildings
\* while a cached column of households kept its value.
C6_Witness ==
    /\ last_access.kind = "clear_cache"
    /\ last_access.key = <<"buildings", [kind |-> "none"]>>
    /\ last_access.cleared = {<<"buildings", "res_hh">>,
                              <<"buildings", "sqft_per_res_unit">>}
    /\ ~IsMissing(COLUMN_CACHE[<<"households", "parcel_id">>])

\* C7: the clear of scope 'iteration' leaves res_hh and the broadcast column
\* (both registered with scope 'iteration') without a cached value, so their
\* next read runs the function, and leaves the cached values of
\* sqft_per_res_unit and job_model_sectors (scope 'forever') as they were, so
\* a read returns them without running the function; the uncached is_adult
\* runs its function on every read.
C7_CacheScopes ==
    /\ [][last_access'.kind = "clear_scope" =>
            /\ IsMissing(COLUMN_CACHE'[<<"buildings", "res_hh">>])
            /\ IsMissing(COLUMN_CACHE'[<<"households", "parcel_id">>])
            /\ COLUMN_CACHE'[<<"buildings", "sqft_per_res_unit">>]
                  = COLUMN_CACHE[<<"buildings", "sqft_per_res_unit">>]
            /\ INJECTABLE_CACHE'["job_model_sectors"]
                  = INJECTABLE_CACHE["job_model_sectors"]
       ]_vars
    /\ [][last_access'.kind = "column" =>
            LET c == last_access'.key
            IN  /\ c = <<"persons", "is_adult">> => last_access'.ran
                /\ c # <<"persons", "is_adult">> =>
                      (last_access'.ran <=> IsMissing(COLUMN_CACHE[c]))
       ]_vars
    /\ [][last_access'.kind = "injectable" =>
            (last_access'.ran <=> IsMissing(INJECTABLE_CACHE[last_access'.key]))
       ]_vars

\* The clear of scope 'iteration' just dropped res_hh's cached value and
\* left those of sqft_per_res_unit and job_model_sectors in place.
C7_Witness ==
    /\ last_access.kind = "clear_scope"
    /\ <<"buildings", "res_hh">> \in last_access.cleared
    /\ ~IsMissing(COLUMN_CACHE[<<"buildings", "sqft_per_res_unit">>])
    /\ ~IsMissing(INJECTABLE_CACHE["job_model_sectors"])

(***************************************************************************)
(* C8, C9: the joins                                                       *)
(***************************************************************************)
\* C8: the column make_broadcast_injectable registers has one value per row
\* of to_table, under to_table's index, and for every row whose fkey is a key
\* of from_table that value is from_table[col_name] at that key.
C8_BroadcastManyToOne ==
    (~IsMissing(join_call) /\ Val(join_call).kind = "broadcast") =>
        /\ DOMAIN join_out = DOMAIN to_fkey
        /\ \A i \in DOMAIN to_fkey :
              to_fkey[i] \in DOMAIN from_col => join_out[i] = from_col[to_fkey[i]]

\* The spec's example, with keys {1, 2}: v = [10, 20] and fkey = [1, 1, 2, 3]
\* give [10, 10, 20, missing].
C8_Witness ==
    /\ ~IsMissing(join_call)
    /\ Val(join_call).kind = "broadcast"
    /\ from_col = <<Some(10), Some(20)>>
    /\ to_fkey = <<1, 1, 2, 3>>
    /\ join_out = <<Some(10), Some(10), Some(20), Missing>>

\* C9: for a target row whose key has no match in the source the reindex
\* column holds 0, the series broadcast holds fill_with when it is given
\* (0 included) and a missing value when it is not, and the key broadcast
\* holds a missing value.
C9_UnmatchedFill ==
    ~IsMissing(join_call) =>
        LET call == Val(join_call)
        IN  /\ DOMAIN join_out = DOMAIN to_fkey
            /\ \A i \in DOMAIN to_fkey :
                  /\ (call.kind = "reindex" /\ i \notin DOMAIN from_col)
                        => join_out[i] = Some(0)
                  /\ (call.kind = "series" /\ to_fkey[i] \notin DOMAIN from_col)
                        => join_out[i] = call.fill_with
                  /\ (call.kind = "broadcast" /\ to_fkey[i] \notin DOMAIN from_col)
                        => join_out[i] = Missing

\* A series broadcast with fill_with = 0 that filled an unmatched row.
C9_Witness ==
    /\ ~IsMissing(join_call)
    /\ Val(join_call) = [kind |-> "series", fill_with |-> Some(0)]
    /\ \E i \in DOMAIN to_fkey :
          /\ to_fkey[i] \notin DOMAIN from_col
          /\ join_out[i] = Some(0)
    /\ \E i \in DOMAIN to_fkey : to_fkey[i] \in DOMAIN from_col

(***************************************************************************)
(* C10: compile_to_cols                                                    *)
(***************************************************************************)
\* The <<year, metric>> pairs of the inputs, years in the dict's order.
RECURSIVE YearMetricPairs(_)
YearMetricPairs(d) ==
    IF d = <<>> THEN <<>>
    ELSE [j \in DOMAIN d[1][2].columns |-> <<d[1][1], d[1][2].columns[j]>>]
         \o YearMetricPairs(Tail(d))

\* C10: on per-year results that share their row index compile_to_cols
\* returns one column per (year, metric) pair, labelled <metric>_<year> when
\* collapse_col_idx is true, holding that year's values of that metric, with
\* the rows of the inputs in their order; when collapse_row_idx is true and
\* the index has more than one level, the levels are plain columns.
C10_CompileToCols ==
    ~IsMissing(cc_out) =>
        LET out    == Val(cc_out)
            inp    == cc_in[1][2]
            pairs  == YearMetricPairs(cc_in)
            moved  == IF cc_flags[2] /\ Len(inp.names) > 1 THEN Len(inp.names) ELSE 0
        IN  /\ Len(out.columns) = moved + Len(pairs)
            /\ \A j \in DOMAIN pairs :
                  IF cc_flags[1]
                  THEN out.columns[moved + j]
                         = pairs[j][2] \o "_" \o ToString(pairs[j][1])
                  ELSE out.columns[moved + j] = pairs[j]
            /\ Len(out.rows) = Len(inp.index)
            /\ \A r \in DOMAIN inp.index : \A j \in DOMAIN pairs :
                  out.rows[r][moved + j] = <<pairs[j][1], pairs[j][2], inp.index[r]>>
            /\ moved = 0 => out.index = inp.index /\ out.names = inp.names
            /\ moved > 0 =>
                  /\ \A l \in 1..moved :
                        /\ out.columns[l] = IF cc_flags[1] THEN Val(inp.names[l])
                                            ELSE <<Val(inp.names[l]), "">>
                        /\ \A r \in DOMAIN inp.index : out.rows[r][l] = inp.index[r][l]
                  /\ Len(out.names) = 1

\* Two years of 'pop' on two counties, both flags true: the columns are
\* pop_2019 and pop_2020 and the rows keep their order.
C10_Witness ==
    /\ ~IsMissing(cc_out)
    /\ cc_flags = <<TRUE, TRUE>>
    /\ Len(cc_in) = 2
    /\ cc_in[1][2].index = <<(<<"b">>), (<<"a">>)>>
    /\ Val(cc_out).columns = <<"pop_2019", "pop_2020">>
    /\ Val(cc_out).index = <<(<<"b">>), (<<"a">>)>>

(***************************************************************************)
(* C11: compile_to_rows                                                    *)
(***************************************************************************)
\* The <<year, group label>> pairs of the inputs: the years in the dict's
\* order, the groups of a year in its frame's order.
RECURSIVE YearGroupPairs(_)
YearGroupPairs(d) ==
    IF d = <<>> THEN <<>>
    ELSE [r \in DOMAIN d[1][2].index |-> <<d[1][1], d[1][2].index[r]>>]
         \o YearGroupPairs(Tail(d))

\* The sum of the inputs' row counts.
RECURSIVE RowCount(_)
RowCount(d) == IF d = <<>> THEN 0 ELSE Len(d[1][2].rows) + RowCount(Tail(d))

\* The cell of row r of frame f in the column labelled name.
CellOf(f, r, name) == f.rows[r][CHOOSE j \in DOMAIN f.columns : f.columns[j] = name]

\* C11: compile_to_rows on per-year results returns one row per (year, group)
\* pair of the inputs (as many rows as the inputs have together), with a
\* 'year' column holding the year each row came from, each metric holding
\* that year's value for that group, and the grouping levels under their
\* original names: as the row index when collapse_row_idx is false or there
\* is exactly one grouping level, as plain columns otherwise.
C11_CompileToRows ==
    ~IsMissing(cr_out) =>
        LET out      == Val(cr_out)
            inp      == cr_in[1][2]
            pairs    == YearGroupPairs(cr_in)
            restored == ~cr_collapse \/ Len(inp.names) = 1
            grpcols  == [l \in DOMAIN inp.names |-> Val(inp.names[l])]
        IN  /\ Len(out.rows) = RowCount(cr_in)
            /\ Len(out.rows) = Len(pairs)
            /\ DOMAIN out.index = DOMAIN out.rows
            /\ Cardinality({j \in DOMAIN out.columns : out.columns[j] = "year"}) = 1
            /\ \A r \in DOMAIN pairs :
                  /\ CellOf(out, r, "year") = pairs[r][1]
                  /\ \A m \in Range(inp.columns) :
                        CellOf(out, r, m) = <<pairs[r][1], m, pairs[r][2]>>
            /\ IF restored
               THEN /\ out.names = inp.names
                    /\ \A r \in DOMAIN pairs : out.index[r] = pairs[r][2]
                    /\ out.columns = <<"year">> \o inp.columns
               ELSE /\ out.columns = <<"year">> \o grpcols \o inp.columns
                    /\ \A r \in DOMAIN pairs : \A l \in DOMAIN grpcols :
                          CellOf(out, r, grpcols[l]) = pairs[r][2][l]
                    /\ out.names = <<Missing>>
                    /\ \A r \in DOMAIN pairs : out.index[r] = <<r - 1>>

\* Two counties in 2019 and one in 2020, one grouping level, collapse_row_idx
\* true: three rows, the years 2019, 2019, 2020 in the 'year' column, county
\* restored as the index.
C11_Witness ==
    /\ ~IsMissing(cr_out)
    /\ cr_collapse
    /\ Len(cr_in) = 2
    /\ cr_in[1][1] = 2019 /\ cr_in[2][1] = 2020
    /\ cr_in[1][2].index = <<(<<"b">>), (<<"a">>)>>
    /\ cr_in[2][2].index = <<(<<"a">>)>>
    /\ Val(cr_out).names = <<Some("county")>>
    /\ Val(cr_out).index = <<(<<"b">>), (<<"a">>), (<<"a">>)>>
    /\ [r \in 1..3 |-> CellOf(Val(cr_out), r, "year")] = <<2019, 2019, 2020>>

(***************************************************************************)
(* C12: load_tables and list_store_tables                                  *)
(***************************************************************************)
\* The tables the file of the call holds under the partition /<year>/.
StoredInYear ==
    {t \in TableNames : <<lt_call.year, t>> \in store[lt_call.h5]}

\* C12: load_tables(h5, year) without a list of tables registers exactly the
\* tables stored under /<year>/, each under its base name with the frame of
\* that partition, replacing the table registered under that name and
\* leaving the others as they were, and list_store_tables(h5, year) lists
\* exactly those tables (their full keys when full is true); the tables of
\* another partition, one whose name starts with the text of year included,
\* are neither loaded nor listed.
C12_ExactlyThePartition ==
    (~IsMissing(lt_ret) /\ (lt_call.fn = "load_tables" => IsMissing(lt_call.tables))) =>
        LET ret == Val(lt_ret)
        IN  /\ ~ret.raised
            /\ lt_call.fn = "list_store_tables" =>
                  /\ Len(ret.value) = Cardinality(StoredInYear)
                  /\ Range(ret.value) =
                        IF lt_call.full
                        THEN {KeyText(lt_call.year, t) : t \in StoredInYear}
                        ELSE StoredInYear
            /\ lt_call.fn = "load_tables" =>
                  \A t \in TableNames :
                     TABLES[t] = IF t \in StoredInYear
                                 THEN Some(Frame(lt_call.h5, lt_call.year, t))
                                 ELSE lt_call.before[t]

(***************************************************************************)
(* C13: the year the columns see                                           *)
(***************************************************************************)
\* C13: while get_indicators aggregates year y (the tables of y are loaded
\* and agg_func is about to run) the 'year' injectable resolves to y, so
\* building_age is y - year_built and freeway_dist is the distance column
\* of y's period, not those of the base year or of another year.
C13_YearIsTheLoadedYear ==
    gi_pc = "agg" =>
        LET yr == year_injectable(iter_var)
        IN  /\ yr = CurYear
            /\ \A yb \in YearsBuilt : building_age(yr, yb) = CurYear - yb
            /\ freeway_dist(yr) = freeway_dist(CurYear)

====
